---- MODULE Spec2Model ----
(***************************************************************************)
(* Model of colossalai/zero/sharded_model/_zero3_utils.py: the sharding    *)
(* and padding helpers, the storage lifecycle helpers and the state-dict   *)
(* prefix rename.                                                          *)
(*                                                                         *)
(* A tensor is the sequence of its rows (a 2-d tensor), each row a         *)
(* sequence of elements; a 1-d tensor (the result of torch.flatten, a      *)
(* chunk, a shard) is a sequence of elements.  Python indexes from 0, TLA+ *)
(* sequences from 1: chunks[rank] of the source is chunks[rank + 1] here.  *)
(***************************************************************************)
EXTENDS Integers, Sequences, FiniteSets, TLC

\* ------------------------------------------------------------------ bounds
MaxRows == 5
MaxCols == 2
MaxNumel == 5
MaxWorldSize == 4
MaxPredivideWorld == 128

\* element values of the tensors (0 is also the value F.pad fills with)
Vals == {0, 1}

Min(a, b) == IF a < b THEN a ELSE b
Max(a, b) == IF a > b THEN a ELSE b

RECURSIVE SumSeq(_)
SumSeq(s) == IF s = <<>> THEN 0 ELSE Head(s) + SumSeq(Tail(s))

RECURSIVE Concat(_)
Concat(ss) == IF ss = <<>> THEN <<>> ELSE Head(ss) \o Concat(Tail(ss))

\* the tensors the calls are made on: every R x C tensor over Vals with
\* R * C <= MaxNumel
Shapes == {sh \in (0..MaxRows) \X (0..MaxCols) : sh[1] * sh[2] <= MaxNumel}
TensorsOfShape(sh) == [1..sh[1] -> [1..sh[2] -> Vals]]
Tensors == UNION {TensorsOfShape(sh) : sh \in Shapes}

\* ------------------------------------------------- library tensor operations
\* torch.flatten: the rows of the tensor one after the other (row-major)
flatten(tensor) == Concat(tensor)

\* Tensor.numel()
numel(tensor) == SumSeq([i \in 1..Len(tensor) |-> Len(tensor[i])])

\* F.pad(t, [0, n]): n zeros appended on the right
pad(t, n) == t \o [i \in 1..n |-> 0]

\* t.new_empty(0): a tensor of no elements
new_empty == <<>>

\* torch.zeros_like(t)
zeros_like(t) == [i \in 1..Len(t) |-> 0]

\* Tensor.chunk(chunks) on a 1-d tensor: pieces of ceil(n / chunks) elements,
\* the last one possibly shorter, possibly fewer than `chunks` pieces; an empty
\* tensor gives `chunks` empty pieces.
chunk(flat, nchunks) ==
    LET dim_size == Len(flat)
        split_size == (dim_size + nchunks - 1) \div nchunks
    IN  IF split_size = 0 /\ dim_size = 0
        THEN [i \in 1..nchunks |-> <<>>]
        ELSE LET num_splits == Max((dim_size + split_size - 1) \div split_size, 1)
             IN  [i \in 1..num_splits |->
                    SubSeq(flat, (i - 1) * split_size + 1, Min(i * split_size, dim_size))]

\* ------------------------------------------- get_gradient_predivide_factor
RECURSIVE predivide_loop_ge(_, _)
predivide_loop_ge(world_size, factor) ==
    IF world_size % factor = 0 /\ world_size \div factor >= factor
    THEN predivide_loop_ge(world_size, factor * 2)
    ELSE factor

\* the while loop of lines 11-12; world_size / factor is evaluated only when
\* factor divides world_size, so the true division is exact
RECURSIVE predivide_loop(_, _)
predivide_loop(world_size, factor) ==
    IF world_size % factor = 0 /\ world_size \div factor > factor
    THEN predivide_loop(world_size, factor * 2)
    ELSE factor

get_gradient_predivide_factor_ge(world_size) == predivide_loop_ge(world_size, 1)

get_gradient_predivide_factor(world_size) == predivide_loop(world_size, 1)

\* ---------------------------------------------------------------- get_shard
\* lines 20-21: append empty chunks until there are world_size of them
RECURSIVE append_empty_chunks(_, _)
append_empty_chunks(chunks, world_size) ==
    IF Len(chunks) < world_size
    THEN append_empty_chunks(Append(chunks, new_empty), world_size)
    ELSE chunks

\* mutant: the appended chunks are copies of the first chunk, not empty
RECURSIVE append_first_chunks(_, _)
append_first_chunks(chunks, world_size) ==
    IF Len(chunks) < world_size
    THEN append_first_chunks(Append(chunks, chunks[1]), world_size)
    ELSE chunks

get_shard_append_first(tensor, rank, world_size) ==
    LET chunks == append_first_chunks(chunk(flatten(tensor), world_size), world_size)
        num_to_pad == Len(chunks[1]) - Len(chunks[rank + 1])
    IN  IF num_to_pad < 0
        THEN [raised |-> "AssertionError", shard |-> <<>>, num_to_pad |-> num_to_pad]
        ELSE [raised |-> "none",
              shard |-> IF num_to_pad > 0 THEN pad(chunks[rank + 1], num_to_pad)
                                          ELSE chunks[rank + 1],
              num_to_pad |-> num_to_pad]

\* mutant: the padding is measured against the last chunk, not the first
get_shard_pad_to_last(tensor, rank, world_size) ==
    LET chunks == append_empty_chunks(chunk(flatten(tensor), world_size), world_size)
        num_to_pad == Len(chunks[Len(chunks)]) - Len(chunks[rank + 1])
    IN  IF num_to_pad < 0
        THEN [raised |-> "AssertionError", shard |-> <<>>, num_to_pad |-> num_to_pad]
        ELSE [raised |-> "none",
              shard |-> IF num_to_pad > 0 THEN pad(chunks[rank + 1], num_to_pad)
                                          ELSE chunks[rank + 1],
              num_to_pad |-> num_to_pad]

\* get_shard(tensor, rank, world_size): the pair (shard, num_to_pad), or the
\* failure of the assertion of line 25
get_shard(tensor, rank, world_size) ==
    LET chunks == append_empty_chunks(chunk(flatten(tensor), world_size), world_size)
        num_to_pad == Len(chunks[1]) - Len(chunks[rank + 1])
    IN  IF num_to_pad < 0
        THEN [raised |-> "AssertionError", shard |-> <<>>, num_to_pad |-> num_to_pad]
        ELSE [raised |-> "none",
              shard |-> IF num_to_pad > 0 THEN pad(chunks[rank + 1], num_to_pad)
                                          ELSE chunks[rank + 1],
              num_to_pad |-> num_to_pad]

\* ------------------------------------------------------------ chunk_and_pad
\* mutant: the missing chunks are not appended
chunk_and_pad_no_extend(tensor, num_chunks) ==
    LET chunks == chunk(flatten(tensor), num_chunks)
        last == Len(chunks)
        num_pad_for_partial_chunk == Len(chunks[1]) - Len(chunks[last])
    IN  [i \in 1..last |->
            IF i = last /\ num_pad_for_partial_chunk > 0
            THEN pad(chunks[i], num_pad_for_partial_chunk)
            ELSE chunks[i]]

\* mutant: the partial chunk is padded on the left
chunk_and_pad_left(tensor, num_chunks) ==
    LET chunks == chunk(flatten(tensor), num_chunks)
        last == Len(chunks)
        num_pad_for_partial_chunk == Len(chunks[1]) - Len(chunks[last])
        padded == [i \in 1..last |->
                     IF i = last /\ num_pad_for_partial_chunk > 0
                     THEN [j \in 1..num_pad_for_partial_chunk |-> 0] \o chunks[i]
                     ELSE chunks[i]]
    IN  IF Len(padded) < num_chunks
        THEN padded \o [i \in 1..(num_chunks - Len(padded)) |-> zeros_like(padded[1])]
        ELSE padded

chunk_and_pad(tensor, num_chunks) ==
    LET chunks == chunk(flatten(tensor), num_chunks)
        last == Len(chunks)
        num_pad_for_partial_chunk == Len(chunks[1]) - Len(chunks[last])
        padded == [i \in 1..last |->
                     IF i = last /\ num_pad_for_partial_chunk > 0
                     THEN pad(chunks[i], num_pad_for_partial_chunk)
                     ELSE chunks[i]]
    IN  IF Len(padded) < num_chunks
        THEN padded \o [i \in 1..(num_chunks - Len(padded)) |-> zeros_like(padded[1])]
        ELSE padded

\* ------------------------------------------------------- storage lifecycle
MaxStorage == 2
MaxOffset == 1
MaxDim == 2
MaxSizeDims == 1

StorageIds == {"s1", "s2"}
TensorNames == {"a", "b"}

\* a tensor as the storage code sees it: data.storage() and data.storage_offset()
Views == [storage : StorageIds, storage_offset : 0..MaxOffset]

\* torch.Size values: tuples of at most MaxSizeDims dimensions
Sizes == UNION {[1..n -> 0..MaxDim] : n \in 0..MaxSizeDims}

\* torch.Size.numel(): the product of the dimensions (1 for the empty size)
RECURSIVE size_numel(_)
size_numel(size) == IF size = <<>> THEN 1 ELSE Head(size) * size_numel(Tail(size))

\* free_storage(data) on the storages `storage` (storage id -> size)
free_storage(data, storage) ==
    IF storage[data.storage] > 0
    THEN IF data.storage_offset # 0
         THEN [raised |-> "AssertionError", storage |-> storage]
         ELSE [raised |-> "none", storage |-> [storage EXCEPT ![data.storage] = 0]]
    ELSE [raised |-> "none", storage |-> storage]

\* mutant: the assertion of line 47 is missing
alloc_storage_no_assert(data, size, storage) ==
    IF storage[data.storage] = size_numel(size)
    THEN [raised |-> "none", storage |-> storage]
    ELSE [raised |-> "none",
          storage |-> [storage EXCEPT ![data.storage] = size_numel(size)]]

\* alloc_storage(data, size) on the storages `storage`
alloc_storage(data, size, storage) ==
    IF storage[data.storage] = size_numel(size)
    THEN [raised |-> "none", storage |-> storage]
    ELSE IF storage[data.storage] # 0
         THEN [raised |-> "AssertionError", storage |-> storage]
         ELSE [raised |-> "none",
               storage |-> [storage EXCEPT ![data.storage] = size_numel(size)]]

\* ------------------------------------------------ replace_state_dict_prefix
MaxKeyLen == 2
MaxPrefixLen == 2

Alphabet == {"a", "b"}
\* the tensors held by a state dict
DictValues == {"T1", "T2"}

Strings(n) == UNION {[1..k -> Alphabet] : k \in 0..n}
Keys == Strings(MaxKeyLen)
Prefixes == Strings(MaxPrefixLen)

\* a dict in insertion order: a sequence of entries with distinct keys
Entries == [key : Keys, value : DictValues]
StateDicts ==
    {d \in UNION {[1..n -> Entries] : n \in 0..Cardinality(DictValues)} :
        \A i, j \in 1..Len(d) : d[i].key = d[j].key => i = j}

\* str.startswith
startswith(key, prefix) ==
    Len(prefix) <= Len(key) /\ SubSeq(key, 1, Len(prefix)) = prefix

\* list(state_dict.keys())
dict_keys(d) == [i \in 1..Len(d) |-> d[i].key]

has_key(d, k) == \E i \in 1..Len(d) : d[i].key = k

\* state_dict[k]
getitem(d, k) == d[CHOOSE i \in 1..Len(d) : d[i].key = k].value

\* state_dict[k] = v: an existing key keeps its place, a new key goes last
setitem(d, k, v) ==
    IF has_key(d, k)
    THEN [i \in 1..Len(d) |-> IF d[i].key = k THEN [key |-> k, value |-> v] ELSE d[i]]
    ELSE Append(d, [key |-> k, value |-> v])

\* del state_dict[k]
delitem(d, k) == SelectSeq(d, LAMBDA e : e.key # k)

\* the for loop of lines 119-124 over the snapshot `ks` of the keys
RECURSIVE rename_loop(_, _, _, _)
rename_loop(d, ks, old_prefix, new_prefix) ==
    IF ks = <<>>
    THEN [raised |-> "none", state_dict |-> d]
    ELSE LET key == Head(ks)
             new_key == new_prefix \o SubSeq(key, Len(old_prefix) + 1, Len(key))
         IN  IF ~startswith(key, old_prefix)
             THEN rename_loop(d, Tail(ks), old_prefix, new_prefix)
             ELSE IF ~has_key(d, key)
                  THEN [raised |-> "KeyError", state_dict |-> d]
                  ELSE rename_loop(delitem(setitem(d, new_key, getitem(d, key)), key),
                                   Tail(ks), old_prefix, new_prefix)

\* mutant: the check of lines 117-118 is missing
replace_state_dict_prefix_no_check(d, old_prefix, new_prefix) ==
    rename_loop(d, dict_keys(d), old_prefix, new_prefix)

replace_state_dict_prefix(d, old_prefix, new_prefix) ==
    IF old_prefix = new_prefix
    THEN [raised |-> "ValueError", state_dict |-> d]
    ELSE rename_loop(d, dict_keys(d), old_prefix, new_prefix)

\* ==================================================================== state
VARIABLES
    tensor,         \* the full tensor every rank shards
    world_size,     \* the number of ranks
    shards,         \* rank -> what get_shard(tensor, rank, world_size) returned
    chunks_out,     \* what chunk_and_pad(tensor, world_size) returned
    predivide,      \* the last get_gradient_predivide_factor call and its result
    views,          \* tensor name -> its storage and storage offset
    storage_size,   \* storage id -> number of elements of the storage
    storage_call,   \* the last free_storage / alloc_storage call
    state_dict,     \* the mapping replace_state_dict_prefix mutates
    rename_call     \* the last replace_state_dict_prefix call

vars == <<tensor, world_size, shards, chunks_out, predivide,
          views, storage_size, storage_call, state_dict, rename_call>>

shard_vars == <<tensor, world_size, shards, chunks_out>>
storage_vars == <<views, storage_size, storage_call>>
dict_vars == <<state_dict, rename_call>>

NotCalled == [raised |-> "not called", shard |-> <<>>, num_to_pad |-> 0]
NoChunks == [called |-> FALSE, chunks |-> <<>>]
NoPredivide == [world_size |-> 0, factor |-> 0]
NoStorageCall == [op |-> "none", data |-> "a", size |-> <<>>, raised |-> "none"]
NoRenameCall == [called |-> FALSE, old_prefix |-> <<>>, new_prefix |-> <<>>,
                 before |-> <<>>, raised |-> "none"]

ShardIdle ==
    /\ tensor = <<>>
    /\ world_size = 1
    /\ shards = [r \in 0..0 |-> NotCalled]
    /\ chunks_out = NoChunks

StorageIdle ==
    /\ views = [t \in TensorNames |-> [storage |-> "s1", storage_offset |-> 0]]
    /\ storage_size = [st \in StorageIds |-> 0]
    /\ storage_call = NoStorageCall @@ [before |-> storage_size]

DictIdle ==
    /\ state_dict = <<>>
    /\ rename_call = NoRenameCall

\* ------------------------------------------------------- sharding: actions
InitShard ==
    /\ tensor \in Tensors
    /\ world_size \in 1..MaxWorldSize
    /\ shards = [r \in 0..(world_size - 1) |-> NotCalled]
    /\ chunks_out = NoChunks
    /\ predivide = NoPredivide
    /\ StorageIdle
    /\ DictIdle

\* rank calls get_shard(tensor, rank, world_size)
GetShard(rank) ==
    /\ shards' = [shards EXCEPT ![rank] = get_shard(tensor, rank, world_size)]
    /\ UNCHANGED <<tensor, world_size, chunks_out, predivide>>
    /\ UNCHANGED <<storage_vars, dict_vars>>

\* chunk_and_pad(tensor, world_size)
ChunkAndPad ==
    /\ chunks_out' = [called |-> TRUE, chunks |-> chunk_and_pad(tensor, world_size)]
    /\ UNCHANGED <<tensor, world_size, shards, predivide>>
    /\ UNCHANGED <<storage_vars, dict_vars>>

NextShard ==
    \/ \E rank \in 0..(world_size - 1) : GetShard(rank)
    \/ ChunkAndPad

SpecShard == InitShard /\ [][NextShard]_vars

\* ----------------------------------------------- predivide factor: actions
InitFactor ==
    /\ predivide = NoPredivide
    /\ ShardIdle
    /\ StorageIdle
    /\ DictIdle

GetGradientPredivideFactor(w) ==
    /\ predivide' = [world_size |-> w, factor |-> get_gradient_predivide_factor(w)]
    /\ UNCHANGED <<shard_vars, storage_vars, dict_vars>>

NextFactor == \E w \in 1..MaxPredivideWorld : GetGradientPredivideFactor(w)

SpecFactor == InitFactor /\ [][NextFactor]_vars

\* ------------------------------------------------------- storage: actions
InitStorage ==
    /\ views \in [TensorNames -> Views]
    /\ storage_size \in [StorageIds -> 0..MaxStorage]
    /\ storage_call = NoStorageCall @@ [before |-> storage_size]
    /\ predivide = NoPredivide
    /\ ShardIdle
    /\ DictIdle

FreeStorage(t) ==
    LET r == free_storage(views[t], storage_size)
    IN  /\ storage_size' = r.storage
        /\ storage_call' = [op |-> "free_storage", data |-> t, size |-> <<>>,
                            raised |-> r.raised, before |-> storage_size]
        /\ UNCHANGED <<views, predivide, shard_vars, dict_vars>>

AllocStorage(t, size) ==
    LET r == alloc_storage(views[t], size, storage_size)
    IN  /\ storage_size' = r.storage
        /\ storage_call' = [op |-> "alloc_storage", data |-> t, size |-> size,
                            raised |-> r.raised, before |-> storage_size]
        /\ UNCHANGED <<views, predivide, shard_vars, dict_vars>>

NextStorage ==
    \/ \E t \in TensorNames : FreeStorage(t)
    \/ \E t \in TensorNames, size \in Sizes : AllocStorage(t, size)

SpecStorage == InitStorage /\ [][NextStorage]_vars

\* ---------------------------------------------------- state dict: actions
InitDict ==
    /\ state_dict \in StateDicts
    /\ rename_call = NoRenameCall
    /\ predivide = NoPredivide
    /\ ShardIdle
    /\ StorageIdle

\* replace_state_dict_prefix(state_dict, old_prefix, new_prefix).  One call is
\* followed: a call never adds an entry, so every mapping with keys of Keys that
\* a further call could start from is an initial mapping, and longer keys are
\* left out.
ReplaceStateDictPrefix(old_prefix, new_prefix) ==
    LET r == replace_state_dict_prefix(state_dict, old_prefix, new_prefix)
    IN  /\ ~rename_call.called
        /\ state_dict' = r.state_dict
        /\ rename_call' = [called |-> TRUE, old_prefix |-> old_prefix,
                           new_prefix |-> new_prefix, before |-> state_dict,
                           raised |-> r.raised]
        /\ UNCHANGED <<predivide, shard_vars, storage_vars>>

NextDict == \E old_prefix \in Prefixes, new_prefix \in Prefixes :
                ReplaceStateDictPrefix(old_prefix, new_prefix)

SpecDict == InitDict /\ [][NextDict]_vars

\* =================================================================== claims
\* ------------------------------------------------------------ SpecFactor
RECURSIVE IsPowerOfTwo(_)
IsPowerOfTwo(f) == f = 1 \/ (f > 1 /\ f % 2 = 0 /\ IsPowerOfTwo(f \div 2))

\* the powers of two up to n
PowersOfTwo(n) == {f \in 1..n : IsPowerOfTwo(f)}

SetMax(S) == CHOOSE x \in S : \A y \in S : y <= x

\* the powers of two that divide w and are at most / strictly below sqrt(w)
DividingUpToRoot(w) == {f \in PowersOfTwo(w) : w % f = 0 /\ f * f <= w}
DividingBelowRoot(w) == {f \in PowersOfTwo(w) : w % f = 0 /\ f * f < w}

\* C1 as stated: get_gradient_predivide_factor(world_size) is the largest power
\* of two that divides world_size and is at most the square root of world_size.
C1_LargestDividingPowerUpToRoot ==
    predivide.world_size >= 1 =>
        predivide.factor = SetMax(DividingUpToRoot(predivide.world_size))

\* C1 amended: get_gradient_predivide_factor(world_size) is twice the largest
\* power of two that divides world_size and is strictly below the square root
\* of world_size, and 1 when no power of two is (world_size = 1).
C1_TwiceLargestDividingPowerBelowRoot ==
    predivide.world_size >= 1 =>
        predivide.factor =
            IF DividingBelowRoot(predivide.world_size) = {}
            THEN 1
            ELSE 2 * SetMax(DividingBelowRoot(predivide.world_size))

\* world_size 6: the result 4 neither divides 6 nor is below its square root
C1_Witness == predivide.world_size = 6 /\ predivide.factor = 4

\* ------------------------------------------------------------- SpecShard
Ranks == 0..(world_size - 1)
Called(rank) == shards[rank].raised # "not called"
AllRanksCalled == \A rank \in Ranks : Called(rank)

\* the pieces torch.chunk makes of the flattened tensor
LibraryChunks == chunk(flatten(tensor), world_size)

RECURSIVE SumRanks(_, _)
SumRanks(f, n) == IF n = 0 THEN 0 ELSE f[n - 1] + SumRanks(f, n - 1)

\* C2: once every rank 0..N-1 has called get_shard(T, rank, N), all calls have
\* returned and the element counts of the shards, less the returned pad
\* counts, sum to T.numel().
C2_ShardSizesLessPaddingSumToNumel ==
    AllRanksCalled =>
        /\ \A rank \in Ranks : shards[rank].raised = "none"
        /\ SumRanks([rank \in Ranks |-> Len(shards[rank].shard)], world_size)
             - SumRanks([rank \in Ranks |-> shards[rank].num_to_pad], world_size)
           = numel(tensor)

\* a tensor with fewer elements than ranks, sharded by every rank
C2_Witness ==
    /\ AllRanksCalled
    /\ numel(tensor) > 0
    /\ numel(tensor) < world_size
    /\ \E rank \in Ranks : shards[rank].num_to_pad > 0

\* C3: no get_shard call fails the assertion num_to_pad >= 0, every returned
\* shard has the element count of the first chunk, and so all shards of one
\* tensor have the same element count.
C3_NoAssertionAndUniformShardSize ==
    /\ \A rank \in Ranks : Called(rank) =>
          /\ shards[rank].raised = "none"
          /\ shards[rank].num_to_pad >= 0
          /\ Len(shards[rank].shard) = Len(LibraryChunks[1])
    /\ \A r1, r2 \in Ranks : Called(r1) /\ Called(r2) =>
          Len(shards[r1].shard) = Len(shards[r2].shard)

\* the library made fewer chunks than ranks and a shorter last chunk, and the
\* rank of the short chunk and a rank without a chunk have their shards
C3_Witness ==
    /\ Len(LibraryChunks) < world_size
    /\ Len(LibraryChunks[Len(LibraryChunks)]) < Len(LibraryChunks[1])
    /\ Called(Len(LibraryChunks) - 1)
    /\ Called(world_size - 1)

\* C4: chunk_and_pad(T, N) returns exactly N tensors of one element count.
C4_ExactlyNEqualChunks ==
    chunks_out.called =>
        /\ Len(chunks_out.chunks) = world_size
        /\ \A i, j \in 1..Len(chunks_out.chunks) :
              Len(chunks_out.chunks[i]) = Len(chunks_out.chunks[j])

\* chunk_and_pad returned where the library made fewer than N pieces and a
\* shorter last piece
C4_Witness ==
    /\ chunks_out.called
    /\ Len(LibraryChunks) < world_size
    /\ Len(LibraryChunks[Len(LibraryChunks)]) < Len(LibraryChunks[1])

\* the shard of `rank` without its padding
Unpadded(rank) ==
    SubSeq(shards[rank].shard, 1, Len(shards[rank].shard) - shards[rank].num_to_pad)

\* the slice of the flattened tensor that belongs to `rank` when every rank
\* holds `size` elements
RankSlice(rank, size) ==
    SubSeq(flatten(tensor), rank * size + 1, Min((rank + 1) * size, numel(tensor)))

\* C10: the shard get_shard(T, r, N) returns is chunk_and_pad(T, N)[r], that is
\* the rank's contiguous slice of the flattened tensor followed by zeros; and
\* the N results concatenated, with the padding dropped, are the flattened T.
C10_ShardIsPaddedChunk ==
    /\ \A rank \in Ranks : Called(rank) /\ chunks_out.called =>
          /\ shards[rank].shard = chunks_out.chunks[rank + 1]
          /\ shards[rank].shard =
                pad(RankSlice(rank, Len(shards[rank].shard)), shards[rank].num_to_pad)
    /\ chunks_out.called =>
          /\ SubSeq(Concat(chunks_out.chunks), 1, numel(tensor)) = flatten(tensor)
          /\ \A i \in (numel(tensor) + 1)..Len(Concat(chunks_out.chunks)) :
                Concat(chunks_out.chunks)[i] = 0
    /\ AllRanksCalled =>
          Concat([i \in 1..world_size |-> Unpadded(i - 1)]) = flatten(tensor)

\* both functions have been applied to a tensor with a non-zero element in a
\* short last chunk, every rank has its shard
C10_Witness ==
    /\ chunks_out.called
    /\ AllRanksCalled
    /\ Len(LibraryChunks) < world_size
    /\ Len(LibraryChunks[Len(LibraryChunks)]) < Len(LibraryChunks[1])
    /\ \E i \in 1..Len(LibraryChunks[Len(LibraryChunks)]) :
          LibraryChunks[Len(LibraryChunks)][i] # 0

\* ----------------------------------------------------------- SpecStorage
CalledOn == views[storage_call.data]
SizeBefore == storage_call.before[CalledOn.storage]
SizeAfter == storage_size[CalledOn.storage]

\* another tensor has the same storage
SharesStorage(t) == \E u \in TensorNames : u # t /\ views[u].storage = views[t].storage

\* the tensor is the only one on its storage and starts at offset zero
OwnsExclusivelyAtZero(t) == views[t].storage_offset = 0 /\ ~SharesStorage(t)

\* C7: free_storage on a tensor with a non-empty buffer fails with an assertion
\* error and leaves the buffer as it is whenever the tensor does not exclusively
\* own the buffer at offset zero, so a buffer another tensor also uses is never
\* resized to zero; an empty buffer is left alone, and otherwise the buffer is
\* empty afterwards.
C7_FreeStorageSparesSharedBuffer ==
    storage_call.op = "free_storage" =>
        /\ SizeBefore > 0 /\ ~OwnsExclusivelyAtZero(storage_call.data) =>
              storage_call.raised = "AssertionError" /\ storage_size = storage_call.before
        /\ SizeBefore > 0 /\ SharesStorage(storage_call.data) => SizeAfter # 0
        /\ SizeBefore = 0 =>
              storage_call.raised = "none" /\ storage_size = storage_call.before
        /\ SizeBefore > 0 /\ OwnsExclusivelyAtZero(storage_call.data) =>
              storage_call.raised = "none" /\ SizeAfter = 0

\* C8: alloc_storage(tensor, size) changes nothing when the buffer already
\* holds size.numel() elements; otherwise resizes an empty buffer to exactly
\* size.numel() elements; otherwise fails with an assertion error and leaves
\* the buffer as it is.  Whenever it returns, the buffer holds size.numel()
\* elements.  No other buffer changes.
C8_AllocStorage ==
    storage_call.op = "alloc_storage" =>
        /\ \A st \in StorageIds : st # CalledOn.storage =>
              storage_size[st] = storage_call.before[st]
        /\ IF SizeBefore = size_numel(storage_call.size)
           THEN storage_call.raised = "none" /\ SizeAfter = SizeBefore
           ELSE IF SizeBefore = 0
                THEN storage_call.raised = "none"
                     /\ SizeAfter = size_numel(storage_call.size)
                ELSE storage_call.raised = "AssertionError" /\ SizeAfter = SizeBefore
        /\ storage_call.raised = "none" => SizeAfter = size_numel(storage_call.size)

\* alloc_storage was refused on a buffer in use of another size
C8_Witness ==
    /\ storage_call.op = "alloc_storage"
    /\ SizeBefore # 0
    /\ SizeBefore # size_numel(storage_call.size)
    /\ storage_call.raised = "AssertionError"

\* -------------------------------------------------------------- SpecDict
Renamed(key) ==
    rename_call.new_prefix \o SubSeq(key, Len(rename_call.old_prefix) + 1, Len(key))

\* C5: after replace_state_dict_prefix with distinct prefixes, every key that
\* started with old_prefix has its value under new_prefix + the rest of the key
\* and is itself removed; every other key is present with its original value.
C5_PrefixedKeysRenamedOthersKept ==
    rename_call.called /\ rename_call.old_prefix # rename_call.new_prefix =>
        \A i \in 1..Len(rename_call.before) :
            LET k == rename_call.before[i].key
                v == rename_call.before[i].value
            IN  IF startswith(k, rename_call.old_prefix)
                THEN /\ has_key(state_dict, Renamed(k))
                     /\ getitem(state_dict, Renamed(k)) = v
                     /\ ~has_key(state_dict, k)
                ELSE /\ has_key(state_dict, k)
                     /\ getitem(state_dict, k) = v

\* the entries of a dict, without their order
EntrySet(d) == {d[i] : i \in 1..Len(d)}

\* the dicts with the entries of d in any order
Orderings(d) == {[i \in 1..Len(d) |-> d[f[i]]] : f \in Permutations(1..Len(d))}

\* C6: the entries the mapping holds after replace_state_dict_prefix with
\* distinct prefixes are the same for every order of the keys of the mapping
\* it was called on.
C6_ResultIndependentOfKeyOrder ==
    rename_call.called /\ rename_call.old_prefix # rename_call.new_prefix =>
        \A d \in Orderings(rename_call.before) :
            EntrySet(replace_state_dict_prefix(
                        d, rename_call.old_prefix, rename_call.new_prefix).state_dict)
              = EntrySet(state_dict)

\* C9: replace_state_dict_prefix with identical prefixes raises a value error
\* and leaves the mapping exactly as it was.
C9_SamePrefixRaisesValueError ==
    rename_call.called /\ rename_call.old_prefix = rename_call.new_prefix =>
        rename_call.raised = "ValueError" /\ state_dict = rename_call.before

\* the call with identical prefixes was made on a mapping with a key that
\* starts with the prefix
C9_Witness ==
    /\ rename_call.called
    /\ rename_call.old_prefix = rename_call.new_prefix
    /\ \E i \in 1..Len(rename_call.before) :
          startswith(rename_call.before[i].key, rename_call.old_prefix)

====
